---- MODULE Spec2Model ----
(***************************************************************************)
(* Model of the chunked map-reduce log analyzer (Project_work/1.py,        *)
(* class LogAnalyzer) and of the count merge helper of the interaction     *)
(* preprocessor (Project_work/8.py).                                       *)
(*                                                                         *)
(* Text is modelled as a sequence of one-character strings, so that        *)
(* str.split, str.strip and str.startswith are computed character by       *)
(* character.  A Counter / dict is modelled as a sequence of <<key, count>>*)
(* pairs in insertion order (the order Python iterates it in); equality of *)
(* two mappings as Python values ignores that order, see AsMap.            *)
(***************************************************************************)
EXTENDS Integers, Sequences, FiniteSets, TLC

VARIABLES
    file,            \* the lines of the input file, in order
    chunk_size,      \* self.chunk_size
    threads,         \* self.threads
    pc,              \* position of the thread that runs process()
    chunks,          \* process(): chunks
    slices,          \* process(): slices
    started,         \* number of Thread objects already start()ed
    joined,          \* number of Thread objects already join()ed
    wpc,             \* position of each worker thread
    local_partials,  \* worker(): local_partials, per worker
    combined,        \* worker(): combined, per worker
    partials,        \* process(): partials (shared list, guarded by lock)
    final,           \* process(): final
    summary,         \* the dict returned by process()
    args,            \* arguments of a direct call of a pure function
    result,          \* what that call returned
    input_exists,    \* whether self.input_path names an existing file
    output,          \* the output file save_json writes
    locals           \* local variables of a multi-step call in progress

vars == <<file, chunk_size, threads, pc, chunks, slices, started, joined,
          wpc, local_partials, combined, partials, final, summary,
          args, result, input_exists, output, locals>>

procVars == <<file, chunk_size, threads, pc, chunks, slices, started, joined,
              wpc, local_partials, combined, partials, final, summary,
              input_exists, output>>

(***************************************************************************)
(* Bounds                                                                  *)
(***************************************************************************)
MaxLines == 3
MaxChunkSize == 3
MaxThreads == 3
MaxAggLines == 2
MaxTokens == 4
MaxItems == 4
MaxBatch == 3

(***************************************************************************)
(* Text                                                                    *)
(***************************************************************************)
LineBoot == <<"2", "0", "2", "4", "-", "0", "1", "-", "0", "1", " ", "1", "0", ":", "0", "0", ":", "0", "0", ",", "0", "0", "0", " ", "I", "N", "F", "O", ":", " ", "b", "o", "o", "t", " ", "o", "k">>
LineDisk1 == <<"2", "0", "2", "4", "-", "0", "1", "-", "0", "1", " ", "1", "0", ":", "0", "0", ":", "0", "0", ",", "5", "0", "0", " ", "E", "R", "R", "O", "R", ":", " ", "d", "i", "s", "k", " ", "f", "u", "l", "l">>
LineDisk2 == <<"2", "0", "2", "4", "-", "0", "1", "-", "0", "1", " ", "1", "0", ":", "0", "0", ":", "0", "1", ",", "0", "0", "0", " ", "E", "R", "R", "O", "R", ":", " ", "d", "i", "s", "k", " ", "f", "u", "l", "l">>
LineE1 == <<"d", " ", "1", ",", "5", " ", "E", "R", "R", "O", "R", " ", "c", ":", " ", "e", "1">>
LineE2 == <<"d", " ", "2", ",", "0", " ", "E", "R", "R", "O", "R", " ", "e", "2">>
LineShort == <<"d", " ", "t">>
LineBlankTs == <<" ", " ", "I", "N", "F", "O", " ", "x">>

INFO == <<"I", "N", "F", "O">>
WARN == <<"W", "A", "R", "N">>
WARNING == <<"W", "A", "R", "N", "I", "N", "G">>
ERROR == <<"E", "R", "R", "O", "R">>
SecondA == <<"2", "0", "2", "4", "-", "0", "1", "-", "0", "1", " ", "1", "0", ":", "0", "0", ":", "0", "0">>
DiskFull == <<"d", "i", "s", "k", " ", "f", "u", "l", "l">>
EmptyStr == <<>>

\* the lines a file is made of
LineUniverse == {LineE1, LineE2, LineShort, LineBlankTs}
\* the file of the end-to-end scenario
ScenarioFile == <<LineBoot, LineDisk1, LineDisk2>>
\* a file of four lines: with chunk_size=1 and threads=3 its last slice is empty
FourLineFile == <<LineE1, LineShort, LineE2, LineE2>>
\* a file of five lines: with chunk_size=1 and threads=4 the slices hold 2, 2, 1, 0 chunks
FiveLineFile == <<LineE1, LineShort, LineE2, LineE2, LineBlankTs>>

\* None, as returned by parse_line
None == <<"None">>

\* str.isspace for one character: the characters str.strip() removes.  The set holds
\* U+0009..U+000D, U+001C..U+001F, U+0020, U+0085, U+00A0 and U+1680; the other
\* white-space characters of Unicode (U+2000..U+200A, U+2028, U+2029, U+202F, U+205F,
\* U+3000) cannot be written in a string of a module
IsSpace(ch) ==
    ch \in {"\t", "\n", "", "\f", "\r", "", "", "", "", " ",
            "", " ", " "}

\* str.find: position of the first occurrence of ch, 0 when there is none
Find(s, ch) ==
    IF \E i \in 1..Len(s) : s[i] = ch
    THEN CHOOSE i \in 1..Len(s) : s[i] = ch /\ \A j \in 1..(i - 1) : s[j] # ch
    ELSE 0

\* str.split(sep, maxsplit) with an explicit one-character separator
RECURSIVE split(_, _, _)
split(s, sep, maxsplit) ==
    IF maxsplit = 0 \/ Find(s, sep) = 0
    THEN <<s>>
    ELSE LET i == Find(s, sep)
         IN  <<SubSeq(s, 1, i - 1)>> \o split(SubSeq(s, i + 1, Len(s)), sep, maxsplit - 1)

\* str.strip()
strip(s) ==
    IF \A i \in 1..Len(s) : IsSpace(s[i])
    THEN <<>>
    ELSE LET lo == CHOOSE i \in 1..Len(s) : ~IsSpace(s[i]) /\ \A j \in 1..(i - 1) : IsSpace(s[j])
             hi == CHOOSE i \in 1..Len(s) : ~IsSpace(s[i]) /\ \A j \in (i + 1)..Len(s) : IsSpace(s[j])
         IN  SubSeq(s, lo, hi)

\* str.startswith
startswith(s, prefix) ==
    Len(s) >= Len(prefix) /\ SubSeq(s, 1, Len(prefix)) = prefix

\* len(line.split()): the number of whitespace-separated tokens of a line
TokenCount(s) ==
    Cardinality({i \in 1..Len(s) : ~IsSpace(s[i]) /\ (i = 1 \/ IsSpace(s[i - 1]))})

(***************************************************************************)
(* Counter / dict                                                          *)
(***************************************************************************)
EmptyCounter == <<>>

Keys(c) == {c[i][1] : i \in 1..Len(c)}

\* c.get(k, 0)
Get(c, k) ==
    IF \E i \in 1..Len(c) : c[i][1] = k
    THEN LET i == CHOOSE j \in 1..Len(c) : c[j][1] = k IN c[i][2]
    ELSE 0

\* c[k] = v : an existing key keeps its position, a new key goes last
SetItem(c, k, v) ==
    IF \E i \in 1..Len(c) : c[i][1] = k
    THEN [i \in 1..Len(c) |-> IF c[i][1] = k THEN <<k, v>> ELSE c[i]]
    ELSE Append(c, <<k, v>>)

\* the mapping as a Python value: == on dicts ignores insertion order
AsMap(c) == {c[i] : i \in 1..Len(c)}

\* sum(c.values())
RECURSIVE SumValues(_)
SumValues(c) == IF c = <<>> THEN 0 ELSE c[1][2] + SumValues(Tail(c))

\* dict.update in place of Counter.update: the other mapping's count replaces the own one
RECURSIVE CounterUpdateOverwrite(_, _)
CounterUpdateOverwrite(a, b) ==
    IF b = <<>> THEN a
    ELSE CounterUpdateOverwrite(SetItem(a, b[1][1], b[1][2]), Tail(b))

\* Counter.subtract in place of Counter.update
RECURSIVE CounterSubtract(_, _)
CounterSubtract(a, b) ==
    IF b = <<>> THEN a
    ELSE CounterSubtract(SetItem(a, b[1][1], Get(a, b[1][1]) - b[1][2]), Tail(b))

\* Counter.update(other): for elem, count in other.items(): self[elem] = count + self.get(elem, 0)
RECURSIVE CounterUpdate(_, _)
CounterUpdate(a, b) ==
    IF b = <<>> THEN a
    ELSE CounterUpdate(SetItem(a, b[1][1], b[1][2] + Get(a, b[1][1])), Tail(b))

\* Counter.most_common(1)[0]: the first item, in iteration order, with the largest count
MostCommon1(c) ==
    LET i == CHOOSE j \in 1..Len(c) :
                 /\ \A k \in 1..Len(c) : c[k][2] <= c[j][2]
                 /\ \A k \in 1..(j - 1) : c[k][2] < c[j][2]
    IN  c[i]

(***************************************************************************)
(* LogAnalyzer                                                             *)
(***************************************************************************)
\* iter_chunks without the trailing "if chunk: yield chunk"
RECURSIVE iter_chunks_from_NoRemainder(_, _, _)
iter_chunks_from_NoRemainder(lines, chunk, size) ==
    IF lines = <<>>
    THEN <<>>
    ELSE LET c == Append(chunk, Head(lines))
         IN  IF Len(c) >= size
             THEN <<c>> \o iter_chunks_from_NoRemainder(Tail(lines), <<>>, size)
             ELSE iter_chunks_from_NoRemainder(Tail(lines), c, size)

\* iter_chunks that yields the chunk left at the end even when it is empty
RECURSIVE iter_chunks_from_YieldsEmpty(_, _, _)
iter_chunks_from_YieldsEmpty(lines, chunk, size) ==
    IF lines = <<>>
    THEN <<chunk>>
    ELSE LET c == Append(chunk, Head(lines))
         IN  IF Len(c) >= size
             THEN <<c>> \o iter_chunks_from_YieldsEmpty(Tail(lines), <<>>, size)
             ELSE iter_chunks_from_YieldsEmpty(Tail(lines), c, size)

\* iter_chunks over a finished line sequence: the list of chunks it yields
RECURSIVE iter_chunks_from(_, _, _)
iter_chunks_from(lines, chunk, size) ==
    IF lines = <<>>
    THEN IF chunk # <<>> THEN <<chunk>> ELSE <<>>
    ELSE LET c == Append(chunk, Head(lines))
         IN  IF Len(c) >= size
             THEN <<c>> \o iter_chunks_from(Tail(lines), <<>>, size)
             ELSE iter_chunks_from(Tail(lines), c, size)

iter_chunks(lines, size) == iter_chunks_from(lines, <<>>, size)

\* str.rstrip(":")
RECURSIVE rstripColon(_)
rstripColon(s) ==
    IF s # <<>> /\ s[Len(s)] = ":" THEN rstripColon(SubSeq(s, 1, Len(s) - 1)) ELSE s

\* what a subscript out of range raises
IndexError == <<"IndexError">>

\* seq[i - 1] in Python: the item, or IndexError when there is none
GetItem(s, i) == IF i \in 1..Len(s) THEN s[i] ELSE IndexError

\* parse_line that also accepts a level token followed by ':'
parse_line_ColonLevel(line) ==
    LET parts == split(line, " ", 3)
    IN  IF Len(parts) < 4 THEN None
        ELSE LET date == parts[1]
                 time_ms == parts[2]
                 level == IF startswith(parts[3], WARN) THEN WARNING ELSE rstripColon(parts[3])
                 rest == parts[4]
             IN  IF level \notin {INFO, WARNING, ERROR} THEN None
                 ELSE LET second == GetItem(split(time_ms, ",", 1), 1)
                          after == IF Find(rest, ":") # 0
                                   THEN GetItem(split(rest, ":", 1), 2)
                                   ELSE rest
                      IN  IF second = IndexError \/ after = IndexError THEN IndexError
                          ELSE <<level, date \o <<" ">> \o second, strip(after)>>

\* parse_line that maps only the exact token WARN to WARNING
parse_line_ExactWarn(line) ==
    LET parts == split(line, " ", 3)
    IN  IF Len(parts) < 4 THEN None
        ELSE LET date == parts[1]
                 time_ms == parts[2]
                 level == IF parts[3] = WARN THEN WARNING ELSE parts[3]
                 rest == parts[4]
             IN  IF level \notin {INFO, WARNING, ERROR} THEN None
                 ELSE LET second == GetItem(split(time_ms, ",", 1), 1)
                          after == IF Find(rest, ":") # 0
                                   THEN GetItem(split(rest, ":", 1), 2)
                                   ELSE rest
                      IN  IF second = IndexError \/ after = IndexError THEN IndexError
                          ELSE <<level, date \o <<" ">> \o second, strip(after)>>

\* parse_line that takes the text after ':' without testing that there is a ':'
parse_line_NoColonTest(line) ==
    LET parts == split(line, " ", 3)
    IN  IF Len(parts) < 4 THEN None
        ELSE LET date == parts[1]
                 time_ms == parts[2]
                 level == IF startswith(parts[3], WARN) THEN WARNING ELSE parts[3]
                 rest == parts[4]
             IN  IF level \notin {INFO, WARNING, ERROR} THEN None
                 ELSE LET second == GetItem(split(time_ms, ",", 1), 1)
                          after == GetItem(split(rest, ":", 1), 2)
                      IN  IF second = IndexError \/ after = IndexError THEN IndexError
                          ELSE <<level, date \o <<" ">> \o second, strip(after)>>

\* parse_line: None for a rejected line, (level, ts_second, msg) for an accepted one,
\* IndexError where a subscript of the code would be out of range
parse_line(line) ==
    LET parts == split(line, " ", 3)
    IN  IF Len(parts) < 4 THEN None
        ELSE LET date == parts[1]
                 time_ms == parts[2]
                 level == IF startswith(parts[3], WARN) THEN WARNING ELSE parts[3]
                 rest == parts[4]
             IN  IF level \notin {INFO, WARNING, ERROR} THEN None
                 ELSE LET second == GetItem(split(time_ms, ",", 1), 1)
                          after == IF Find(rest, ":") # 0
                                   THEN GetItem(split(rest, ":", 1), 2)
                                   ELSE rest
                      IN  IF second = IndexError \/ after = IndexError THEN IndexError
                          ELSE <<level, date \o <<" ">> \o second, strip(after)>>

\* the dict both reductions start from
base == [levels |-> EmptyCounter, rps |-> EmptyCounter, errors |-> EmptyCounter,
         total_lines |-> 0, parsed_lines |-> 0]

\* the loop body of aggregate_chunk for one parsed record
\* an aggregation that counts the message of every record, whatever its level
AddRecord_ErrorsForAll(agg, rec) ==
    [agg EXCEPT !.parsed_lines = @ + 1,
                !.levels = SetItem(@, rec[1], Get(@, rec[1]) + 1),
                !.rps = SetItem(@, rec[2], Get(@, rec[2]) + 1),
                !.errors = SetItem(@, rec[3], Get(@, rec[3]) + 1)]

AddRecord(agg, rec) ==
    [agg EXCEPT !.parsed_lines = @ + 1,
                !.levels = SetItem(@, rec[1], Get(@, rec[1]) + 1),
                !.rps = SetItem(@, rec[2], Get(@, rec[2]) + 1),
                !.errors = IF rec[1] = ERROR
                           THEN SetItem(@, rec[3], Get(@, rec[3]) + 1)
                           ELSE @]

RECURSIVE AggregateFrom(_, _)
AggregateFrom(agg, lines) ==
    IF lines = <<>> THEN agg
    ELSE LET rec == parse_line(Head(lines))
         IN  AggregateFrom(IF rec = None THEN agg ELSE AddRecord(agg, rec), Tail(lines))

\* whether parse_line raises for a line of the batch
ChunkRaises(lines) == \E j \in 1..Len(lines) : parse_line(lines[j]) = IndexError

\* what a call of aggregate_chunk that raised leaves instead of an aggregate
Raised == [raised |-> IndexError]

\* aggregate_chunk that reports the parsed count as total_lines
aggregate_chunk_TotalIsParsed(lines) ==
    IF ChunkRaises(lines)
    THEN Raised
    ELSE [AggregateFrom(base, lines) EXCEPT !.total_lines = AggregateFrom(base, lines).parsed_lines]

\* aggregate_chunk: the aggregate of the batch; an exception of parse_line leaves it
aggregate_chunk(lines) ==
    IF ChunkRaises(lines)
    THEN Raised
    ELSE [AggregateFrom(base, lines) EXCEPT !.total_lines = Len(lines)]

\* merge with the two scalar counters crossed
merge_CrossedTotals(a, b) ==
    [levels |-> CounterUpdate(a.levels, b.levels),
     rps |-> CounterUpdate(a.rps, b.rps),
     errors |-> CounterUpdate(a.errors, b.errors),
     total_lines |-> a.total_lines + b.parsed_lines,
     parsed_lines |-> a.parsed_lines + b.total_lines]

merge(a, b) ==
    [levels |-> CounterUpdate(a.levels, b.levels),
     rps |-> CounterUpdate(a.rps, b.rps),
     errors |-> CounterUpdate(a.errors, b.errors),
     total_lines |-> a.total_lines + b.total_lines,
     parsed_lines |-> a.parsed_lines + b.parsed_lines]

\* a reduce that stops one element early
RECURSIVE reduce_merge_DropLast(_, _)
reduce_merge_DropLast(seq, acc) ==
    IF Len(seq) <= 1 THEN acc
    ELSE reduce_merge_DropLast(Tail(seq), merge(acc, Head(seq)))

\* a reduce that folds the sequence from its end
RECURSIVE reduce_merge_Reversed(_, _)
reduce_merge_Reversed(seq, acc) ==
    IF seq = <<>> THEN acc
    ELSE reduce_merge_Reversed(SubSeq(seq, 1, Len(seq) - 1), merge(acc, seq[Len(seq)]))

\* functools.reduce(LogAnalyzer.merge, seq, acc)
RECURSIVE reduce_merge(_, _)
reduce_merge(seq, acc) ==
    IF seq = <<>> THEN acc ELSE reduce_merge(Tail(seq), merge(acc, Head(seq)))

\* the slices process() cuts the chunk list into
NumWorkers(cs, th) == IF th < Len(cs) THEN th ELSE Len(cs)
\* floor instead of ceiling division
SliceSizeFloor(cs, th) == Len(cs) \div NumWorkers(cs, th)
SliceSize(cs, th) == (Len(cs) + NumWorkers(cs, th) - 1) \div NumWorkers(cs, th)
\* a slice that takes one item too many: chunks[lo:hi + 1]
PySlice_OneMore(s, lo, hi) ==
    SubSeq(s, (IF lo < Len(s) THEN lo ELSE Len(s)) + 1, IF hi + 1 < Len(s) THEN hi + 1 ELSE Len(s))
\* chunks[lo:hi] with Python's clamping of out-of-range bounds
PySlice(s, lo, hi) ==
    SubSeq(s, (IF lo < Len(s) THEN lo ELSE Len(s)) + 1, IF hi < Len(s) THEN hi ELSE Len(s))
MakeSlices(cs, th) ==
    [i \in 1..NumWorkers(cs, th) |->
        PySlice(cs, (i - 1) * SliceSize(cs, th), i * SliceSize(cs, th))]

\* an empty-input summary that reports the scalar defaults as None
EmptySummaryNone ==
    [total_lines |-> 0, parsed_lines |-> 0, level_counts |-> <<>>,
     most_frequent_error |-> [message |-> None, count |-> 0],
     rps |-> [peak_second |-> None, peak_value |-> 0, distinct_seconds |-> 0]]

\* the dict process() returns for an empty chunk list
EmptySummary ==
    [total_lines |-> 0, parsed_lines |-> 0, level_counts |-> <<>>,
     most_frequent_error |-> [message |-> EmptyStr, count |-> 0],
     rps |-> [peak_second |-> EmptyStr, peak_value |-> 0, distinct_seconds |-> 0]]

\* the dict process() returns after the final reduce
Summarize(f) ==
    [total_lines |-> f.total_lines,
     parsed_lines |-> f.parsed_lines,
     level_counts |-> f.levels,
     most_frequent_error |->
        IF f.errors # <<>>
        THEN [message |-> MostCommon1(f.errors)[1], count |-> MostCommon1(f.errors)[2]]
        ELSE [message |-> EmptyStr, count |-> 0],
     rps |-> [peak_second |-> IF f.rps # <<>> THEN MostCommon1(f.rps)[1] ELSE EmptyStr,
              peak_value |-> IF f.rps # <<>> THEN MostCommon1(f.rps)[2] ELSE 0,
              distinct_seconds |-> Len(f.rps)]]

(***************************************************************************)
(* process(): the coordinating thread and its worker threads               *)
(***************************************************************************)
RECURSIVE SeqsUpTo(_, _)
SeqsUpTo(S, n) ==
    IF n = 0 THEN {<<>>}
    ELSE SeqsUpTo(S, n - 1) \cup
         {Append(s, x) : s \in {t \in SeqsUpTo(S, n - 1) : Len(t) = n - 1}, x \in S}

Files == SeqsUpTo(LineUniverse, MaxLines) \cup {ScenarioFile, FourLineFile}

NoCall == [op |-> "none"]

\* the output file before save_json has run
NotWritten == [written |-> FALSE]

Init ==
    /\ \/ /\ input_exists = TRUE
          /\ file \in Files
          /\ chunk_size \in 1..MaxChunkSize
          /\ threads \in 1..MaxThreads
       \/ /\ input_exists = TRUE
          /\ file = FiveLineFile
          /\ chunk_size = 1
          /\ threads = 4
       \/ /\ input_exists = FALSE
          /\ file = <<>>
          /\ chunk_size \in 1..MaxChunkSize
          /\ threads \in 1..MaxThreads
    /\ output = NotWritten
    /\ pc = "process"
    /\ chunks = <<>>
    /\ slices = <<>>
    /\ started = 0
    /\ joined = 0
    /\ wpc = <<>>
    /\ local_partials = <<>>
    /\ combined = <<>>
    /\ partials = <<>>
    /\ final = base
    /\ summary = None
    /\ args = NoCall
    /\ result = NoCall
    /\ locals = NoCall

\* a process() that takes a missing input file for an empty one
ProcessNotFound_AsEmpty ==
    /\ pc = "process"
    /\ ~input_exists
    /\ summary' = EmptySummary
    /\ pc' = "done"
    /\ UNCHANGED <<file, chunk_size, threads, chunks, slices, started, joined, wpc,
                   local_partials, combined, partials, final, args, result,
                   input_exists, output, locals>>

\* process(), line 91 with iter_lines, line 25: open() raises FileNotFoundError, which
\* leaves process() and main() before anything else has run
ProcessNotFound ==
    /\ pc = "process"
    /\ ~input_exists
    /\ pc' = "raised"
    /\ UNCHANGED <<file, chunk_size, threads, chunks, slices, started, joined, wpc,
                   local_partials, combined, partials, final, summary, args, result,
                   input_exists, output, locals>>

\* process(), lines 91-100: the chunk list is empty, return the all-zero summary
ProcessEmpty ==
    /\ pc = "process"
    /\ input_exists
    /\ iter_chunks(file, chunk_size) = <<>>
    /\ chunks' = <<>>
    /\ summary' = EmptySummary
    /\ pc' = "done"
    /\ UNCHANGED <<file, chunk_size, threads, slices, started, joined, wpc,
                   local_partials, combined, partials, final, args, result,
                   input_exists, output, locals>>

\* process(), lines 91-125: build chunks, slices and the Thread objects
ProcessSplit ==
    /\ pc = "process"
    /\ input_exists
    /\ iter_chunks(file, chunk_size) # <<>>
    /\ chunks' = iter_chunks(file, chunk_size)
    /\ slices' = MakeSlices(chunks', threads)
    /\ wpc' = [i \in 1..NumWorkers(chunks', threads) |-> "new"]
    /\ local_partials' = [i \in 1..NumWorkers(chunks', threads) |-> <<>>]
    /\ combined' = [i \in 1..NumWorkers(chunks', threads) |-> base]
    /\ partials' = <<>>
    /\ pc' = "start"
    /\ UNCHANGED <<file, chunk_size, threads, started, joined, final, summary,
                   args, result,
                   input_exists, output, locals>>

\* line 126: for t in threads: t.start()
StartThread ==
    /\ pc = "start"
    /\ started < Len(slices)
    /\ started' = started + 1
    /\ wpc' = [wpc EXCEPT ![started + 1] = "map"]
    /\ pc' = IF started + 1 = Len(slices) THEN "join" ELSE "start"
    /\ UNCHANGED <<file, chunk_size, threads, chunks, slices, joined,
                   local_partials, combined, partials, final, summary, args, result,
                   input_exists, output, locals>>

\* worker() without the test "if local_partials": an empty slice is reduced and appended too
WorkerMap_NoEmptyTest(w) ==
    /\ w \in DOMAIN wpc
    /\ wpc[w] = "map"
    /\ IF \E i \in 1..Len(slices[w]) : ChunkRaises(slices[w][i])
       THEN /\ wpc' = [wpc EXCEPT ![w] = "crashed"]
            /\ UNCHANGED local_partials
       ELSE /\ local_partials' = [local_partials EXCEPT
                   ![w] = [i \in 1..Len(slices[w]) |-> aggregate_chunk(slices[w][i])]]
            /\ wpc' = [wpc EXCEPT ![w] = "reduce"]
    /\ UNCHANGED <<file, chunk_size, threads, pc, chunks, slices, started, joined,
                   combined, partials, final, summary, args, result,
                   input_exists, output, locals>>

\* worker(), lines 111-113: aggregate every chunk of the slice
WorkerMap(w) ==
    /\ w \in DOMAIN wpc
    /\ wpc[w] = "map"
    /\ IF \E i \in 1..Len(slices[w]) : ChunkRaises(slices[w][i])
       THEN /\ wpc' = [wpc EXCEPT ![w] = "crashed"]
            /\ UNCHANGED local_partials
       ELSE /\ local_partials' = [local_partials EXCEPT
                   ![w] = [i \in 1..Len(slices[w]) |-> aggregate_chunk(slices[w][i])]]
            /\ wpc' = [wpc EXCEPT ![w] = IF slices[w] # <<>> THEN "reduce" ELSE "done"]
    /\ UNCHANGED <<file, chunk_size, threads, pc, chunks, slices, started, joined,
                   combined, partials, final, summary, args, result,
                   input_exists, output, locals>>

\* workers that reduce into one base dict created outside worker() and shared by all
WorkerReduce_SharedBase(w) ==
    /\ w \in DOMAIN wpc
    /\ wpc[w] = "reduce"
    /\ combined' = [v \in DOMAIN combined |-> reduce_merge(local_partials[w], combined[w])]
    /\ wpc' = [wpc EXCEPT ![w] = "append"]
    /\ UNCHANGED <<file, chunk_size, threads, pc, chunks, slices, started, joined,
                   local_partials, partials, final, summary, args, result,
                   input_exists, output, locals>>

\* worker(), lines 114-121: reduce within the thread
WorkerReduce(w) ==
    /\ w \in DOMAIN wpc
    /\ wpc[w] = "reduce"
    /\ combined' = [combined EXCEPT ![w] = reduce_merge(local_partials[w], base)]
    /\ wpc' = [wpc EXCEPT ![w] = "append"]
    /\ UNCHANGED <<file, chunk_size, threads, pc, chunks, slices, started, joined,
                   local_partials, partials, final, summary, args, result,
                   input_exists, output, locals>>

\* a worker that hands back its per-chunk aggregates: partials.extend(local_partials)
WorkerAppend_Extend(w) ==
    /\ w \in DOMAIN wpc
    /\ wpc[w] = "append"
    /\ partials' = partials \o local_partials[w]
    /\ wpc' = [wpc EXCEPT ![w] = "done"]
    /\ UNCHANGED <<file, chunk_size, threads, pc, chunks, slices, started, joined,
                   local_partials, combined, final, summary, args, result,
                   input_exists, output, locals>>

\* worker(), lines 122-123: with lock: partials.append(combined)
WorkerAppend(w) ==
    /\ w \in DOMAIN wpc
    /\ wpc[w] = "append"
    /\ partials' = Append(partials, combined[w])
    /\ wpc' = [wpc EXCEPT ![w] = "done"]
    /\ UNCHANGED <<file, chunk_size, threads, pc, chunks, slices, started, joined,
                   local_partials, combined, final, summary, args, result,
                   input_exists, output, locals>>

\* an exception raised inside worker()/aggregate_chunk ends that thread only:
\* threading.Thread reports it through threading.excepthook and the thread stops
WorkerCrash(w) ==
    /\ w \in DOMAIN wpc
    /\ wpc[w] \in {"map", "reduce"}
    /\ wpc' = [wpc EXCEPT ![w] = "crashed"]
    /\ UNCHANGED <<file, chunk_size, threads, pc, chunks, slices, started, joined,
                   local_partials, combined, partials, final, summary, args, result,
                   input_exists, output, locals>>

\* a worker thread that never returns: it stays where it is for ever
WorkerHang(w) ==
    /\ w \in DOMAIN wpc
    /\ wpc[w] \in {"map", "reduce", "append"}
    /\ wpc' = [wpc EXCEPT ![w] = "hung"]
    /\ UNCHANGED <<file, chunk_size, threads, pc, chunks, slices, started, joined,
                   local_partials, combined, partials, final, summary, args, result,
                   input_exists, output, locals>>

\* a join with a timeout: it returns whether or not the thread has ended
JoinThread_Timeout ==
    /\ pc = "join"
    /\ joined < Len(slices)
    /\ joined' = joined + 1
    /\ pc' = IF joined + 1 = Len(slices) THEN "reduce" ELSE "join"
    /\ UNCHANGED <<file, chunk_size, threads, chunks, slices, started, wpc,
                   local_partials, combined, partials, final, summary, args, result,
                   input_exists, output, locals>>

\* line 127: for t in threads: t.join()  (join returns once the thread has ended,
\* whether it ended normally or by an exception)
JoinThread ==
    /\ pc = "join"
    /\ joined < Len(slices)
    /\ wpc[joined + 1] \in {"done", "crashed"}
    /\ joined' = joined + 1
    /\ pc' = IF joined + 1 = Len(slices) THEN "reduce" ELSE "join"
    /\ UNCHANGED <<file, chunk_size, threads, chunks, slices, started, wpc,
                   local_partials, combined, partials, final, summary, args, result,
                   input_exists, output, locals>>

\* lines 129-158: final reduce across thread outputs, build and return the summary
FinalReduce ==
    /\ pc = "reduce"
    /\ final' = reduce_merge(partials, base)
    /\ summary' = Summarize(final')
    /\ pc' = "done"
    /\ UNCHANGED <<file, chunk_size, threads, chunks, slices, started, joined, wpc,
                   local_partials, combined, partials, args, result,
                   input_exists, output, locals>>

\* main(), lines 170-171: analyzer.save_json(summary) once process() has returned
SaveJson ==
    /\ pc = "done"
    /\ output' = [written |-> TRUE, data |-> summary]
    /\ pc' = "saved"
    /\ UNCHANGED <<file, chunk_size, threads, chunks, slices, started, joined, wpc,
                   local_partials, combined, partials, final, summary, args, result,
                   input_exists, locals>>

Next ==
    \/ ProcessNotFound
    \/ ProcessEmpty
    \/ ProcessSplit
    \/ StartThread
    \/ \E w \in DOMAIN wpc : WorkerMap(w)
    \/ \E w \in DOMAIN wpc : WorkerReduce(w)
    \/ \E w \in DOMAIN wpc : WorkerAppend(w)
    \/ JoinThread
    \/ FinalReduce
    \/ SaveJson

Spec == Init /\ [][Next]_vars

\* the same program in an environment where a worker thread may raise
NextFault ==
    \/ Next
    \/ \E w \in DOMAIN wpc : WorkerCrash(w)

SpecFault == Init /\ [][NextFault]_vars

\* the program on files of ERROR lines, INFO lines and rejected lines
MixedFiles == SeqsUpTo({LineE1, LineBlankTs, LineShort}, MaxLines)

InitMixed == Init /\ file \in MixedFiles

SpecMixed == InitMixed /\ [][Next]_vars

\* the same program in an environment where a worker thread may also never return;
\* the thread that runs process() is scheduled whenever it can take a step
HangFiles == SeqsUpTo({LineE1, LineShort}, MaxLines)

InitHang == Init /\ file \in HangFiles

NextHang ==
    \/ NextFault
    \/ \E w \in DOMAIN wpc : WorkerHang(w)

SpecHang ==
    /\ InitHang
    /\ [][NextHang]_vars
    /\ WF_vars(StartThread)
    /\ WF_vars(JoinThread)
    /\ WF_vars(FinalReduce)

(***************************************************************************)
(* InteractionPreprocessor.merge_counts (Project_work/8.py)                *)
(***************************************************************************)
\* for key, v in b.items(): a[key] = a.get(key, 0) + v
RECURSIVE merge_counts(_, _)
merge_counts(a, b) ==
    IF b = <<>> THEN a
    ELSE merge_counts(SetItem(a, b[1][1], Get(a, b[1][1]) + b[1][2]), Tail(b))

(***************************************************************************)
(* Direct calls of the merge reducers on aggregates taken as values        *)
(***************************************************************************)
\* the aggregates aggregate_chunk produces for batches of up to MaxAggLines lines
AggUniverse == {aggregate_chunk(ch) : ch \in SeqsUpTo(LineUniverse, MaxAggLines)}

CategoryFields == {"levels", "rps", "errors"}

InitMerge ==
    /\ input_exists = TRUE
    /\ output = NotWritten
    /\ file = <<>>
    /\ chunk_size = 1
    /\ threads = 1
    /\ pc = "idle"
    /\ chunks = <<>>
    /\ slices = <<>>
    /\ started = 0
    /\ joined = 0
    /\ wpc = <<>>
    /\ local_partials = <<>>
    /\ combined = <<>>
    /\ partials = <<>>
    /\ final = base
    /\ summary = None
    /\ args \in [a : AggUniverse, b : AggUniverse, c : AggUniverse]
    /\ result = NoCall
    /\ locals = NoCall

\* merge(merge(a, b), c) and merge(a, merge(b, c)), each on fresh copies
CallMergeTwice ==
    /\ pc = "idle"
    /\ result = NoCall
    /\ result' = [op |-> "merge3",
                  left |-> merge(merge(args.a, args.b), args.c),
                  right |-> merge(args.a, merge(args.b, args.c))]
    /\ UNCHANGED <<procVars, args, locals>>

\* merge(a, b) and merge(b, a), each on fresh copies
CallMerge ==
    /\ pc = "idle"
    /\ result = NoCall
    /\ result' = [op |-> "merge",
                  ab |-> merge(args.a, args.b),
                  ba |-> merge(args.b, args.a)]
    /\ UNCHANGED <<procVars, args, locals>>

\* merge_counts(x, y) and merge_counts(y, x) on two plain count mappings
CallMergeCounts(f) ==
    /\ pc = "idle"
    /\ result = NoCall
    /\ result' = [op |-> "merge_counts",
                  x |-> args.a[f],
                  y |-> args.b[f],
                  xy |-> merge_counts(args.a[f], args.b[f]),
                  yx |-> merge_counts(args.b[f], args.a[f])]
    /\ UNCHANGED <<procVars, args, locals>>

NextMerge ==
    \/ CallMergeTwice
    \/ CallMerge
    \/ \E f \in CategoryFields : CallMergeCounts(f)

SpecMerge == InitMerge /\ [][NextMerge]_vars

(***************************************************************************)
(* The chunkers: LogAnalyzer.iter_chunks, batched (8.py), chunked (4.py)   *)
(***************************************************************************)
\* batched that does not start a new batch after a yield
RECURSIVE batched_from_NoReset(_, _, _)
batched_from_NoReset(items, batch, n) ==
    IF items = <<>>
    THEN IF batch # <<>> THEN <<batch>> ELSE <<>>
    ELSE LET b == Append(batch, Head(items))
         IN  IF Len(b) = n
             THEN <<b>> \o batched_from_NoReset(Tail(items), b, n)
             ELSE batched_from_NoReset(Tail(items), b, n)

\* batched(iterable, n): the list of batches it yields
RECURSIVE batched_from(_, _, _)
batched_from(items, batch, n) ==
    IF items = <<>>
    THEN IF batch # <<>> THEN <<batch>> ELSE <<>>
    ELSE LET b == Append(batch, Head(items))
         IN  IF Len(b) = n
             THEN <<b>> \o batched_from(Tail(items), <<>>, n)
             ELSE batched_from(Tail(items), b, n)

batched(items, n) == batched_from(items, <<>>, n)

\* list(islice(it, n)): the next n items, or the ones that are left
islice(items, n) == SubSeq(items, 1, IF n < Len(items) THEN n ELSE Len(items))

\* chunked(it, n): the list of batches it yields
RECURSIVE chunked(_, _)
chunked(items, n) ==
    LET batch == islice(items, n)
    IN  IF batch = <<>> THEN <<>>
        ELSE <<batch>> \o chunked(SubSeq(items, Len(batch) + 1, Len(items)), n)

\* process() has not been called
ProcessIdle ==
    /\ input_exists = TRUE
    /\ output = NotWritten
    /\ file = <<>>
    /\ chunk_size = 1
    /\ threads = 1
    /\ pc = "idle"
    /\ chunks = <<>>
    /\ slices = <<>>
    /\ started = 0
    /\ joined = 0
    /\ wpc = <<>>
    /\ local_partials = <<>>
    /\ combined = <<>>
    /\ partials = <<>>
    /\ final = base
    /\ summary = None

ItemUniverse == {"a", "b"}

InitChunk ==
    /\ ProcessIdle
    /\ args \in [items : SeqsUpTo(ItemUniverse, MaxItems), n : 1..MaxBatch]
    /\ result = NoCall
    /\ locals = NoCall

CallIterChunks ==
    /\ pc = "idle"
    /\ result = NoCall
    /\ result' = [op |-> "iter_chunks", value |-> iter_chunks(args.items, args.n)]
    /\ UNCHANGED <<procVars, args, locals>>

CallBatched ==
    /\ pc = "idle"
    /\ result = NoCall
    /\ result' = [op |-> "batched", value |-> batched(args.items, args.n)]
    /\ UNCHANGED <<procVars, args, locals>>

CallChunked ==
    /\ pc = "idle"
    /\ result = NoCall
    /\ result' = [op |-> "chunked", value |-> chunked(args.items, args.n)]
    /\ UNCHANGED <<procVars, args, locals>>

NextChunk ==
    \/ CallIterChunks
    \/ CallBatched
    \/ CallChunked

SpecChunk == InitChunk /\ [][NextChunk]_vars

(***************************************************************************)
(* Direct calls of parse_line and aggregate_chunk                          *)
(***************************************************************************)
Colon == <<"c", ":", "m">>
TokenUniverse ==
    {<<>>, <<"d">>, <<"1", ",", "5">>, INFO, WARN, ERROR, <<"D", "E", "B", "U", "G">>, Colon}

\* " ".join(tokens)
RECURSIVE Join(_)
Join(tokens) ==
    IF tokens = <<>> THEN <<>>
    ELSE IF Len(tokens) = 1 THEN tokens[1]
    ELSE tokens[1] \o <<" ">> \o Join(Tail(tokens))

\* lines of up to MaxTokens tokens, a token possibly empty
ParseLines == {Join(ts) : ts \in SeqsUpTo(TokenUniverse, MaxTokens)}

\* level tokens: recognized ones, WARN-prefixed ones, and others
WARNX == <<"W", "A", "R", "N", "X">>

LevelTokens ==
    {INFO, WARN, WARNING, WARNX, ERROR,
     <<"i", "n", "f", "o">>, <<"w", "a", "r", "n">>, <<"E", "r", "r", "o", "r">>,
     <<"D", "E", "B", "U", "G">>, <<"F", "A", "T", "A", "L">>,
     <<"W", "A", "R">>, <<"I", "N", "F", "O", ":">>}

\* four-token lines that differ in the level token only
LevelLines == {Join(<<<<"d">>, <<"t">>, lvl, <<"m">>>>) : lvl \in LevelTokens}

\* a line whose message begins with a form feed, which str.strip() removes
FormFeedLine == Join(<<<<"d">>, <<"t">>, INFO, <<"\f", "m">>>>)

\* one-line batches of those lines, and batches of file lines
Batches ==
    {<<l>> : l \in ParseLines \cup LevelLines \cup {FormFeedLine}} \cup
    SeqsUpTo(LineUniverse \cup {LineBoot}, MaxAggLines + 1)

InitParse ==
    /\ ProcessIdle
    /\ args \in [batch : Batches]
    /\ result = NoCall
    /\ locals = NoCall

CallParseLine(j) ==
    /\ pc = "idle"
    /\ result = NoCall
    /\ j \in 1..Len(args.batch)
    /\ result' = [op |-> "parse_line", line |-> args.batch[j],
                  value |-> parse_line(args.batch[j])]
    /\ UNCHANGED <<procVars, args, locals>>

CallAggregateChunk ==
    /\ pc = "idle"
    /\ result = NoCall
    /\ result' = [op |-> "aggregate_chunk", value |-> aggregate_chunk(args.batch)]
    /\ UNCHANGED <<procVars, args, locals>>

NextParse ==
    \/ \E j \in 1..(MaxAggLines + 1) : CallParseLine(j)
    \/ CallAggregateChunk

SpecParse == InitParse /\ [][NextParse]_vars

(***************************************************************************)
(* InteractionPreprocessor.run: batches counted by a process pool          *)
(***************************************************************************)
MaxStream == 3
MaxWorkers == 2

\* user and item ids, in the order sorted() gives them
KeyOrder == <<"i1", "i2", "u1", "u2">>

Rank(k) == CHOOSE r \in 1..Len(KeyOrder) : KeyOrder[r] = k

\* the (user, item) pairs iter_interactions yields
Interactions == {<<"u1", "i1">>, <<"u1", "i2">>, <<"u2", "i1">>}

Streams == SeqsUpTo(Interactions, MaxStream)

\* sorted(values)
RECURSIVE sorted(_)
sorted(values) ==
    IF values = <<>> THEN <<>>
    ELSE LET x == values[Len(values)]
             init == sorted(SubSeq(values, 1, Len(values) - 1))
             n == Cardinality({i \in 1..Len(init) : Rank(init[i]) <= Rank(x)})
         IN  SubSeq(init, 1, n) \o <<x>> \o SubSeq(init, n + 1, Len(init))

\* itertools.groupby(values): the runs of equal consecutive values, as (key, length)
RECURSIVE groupby(_)
groupby(values) ==
    IF values = <<>> THEN <<>>
    ELSE LET init == groupby(SubSeq(values, 1, Len(values) - 1))
             x == values[Len(values)]
         IN  IF init # <<>> /\ init[Len(init)][1] = x
             THEN [init EXCEPT ![Len(init)] = <<x, @[2] + 1>>]
             ELSE Append(init, <<x, 1>>)

\* counts[key] = length of the run, for each run in turn
RECURSIVE AssignRuns(_, _)
AssignRuns(counts, runs) ==
    IF runs = <<>> THEN counts
    ELSE AssignRuns(SetItem(counts, runs[1][1], runs[1][2]), Tail(runs))

\* count_groupby without the sort: a later run of a key replaces its earlier count
count_groupby_Unsorted(values) == AssignRuns(EmptyCounter, groupby(values))

count_groupby(values) == AssignRuns(EmptyCounter, groupby(sorted(values)))

\* process_batch: (item_counts, user_counts) of one batch
process_batch(batch) ==
    [item |-> count_groupby([j \in 1..Len(batch) |-> batch[j][2]]),
     user |-> count_groupby([j \in 1..Len(batch) |-> batch[j][1]])]

NoValue == [item |-> EmptyCounter, user |-> EmptyCounter]

Futures == locals.futures

Running == {k \in 1..Len(Futures) : Futures[k].state = "running"}

InitRun ==
    /\ ProcessIdle
    /\ args \in [stream : Streams, batch_size : 1..MaxBatch, workers : 1..MaxWorkers]
    /\ result = NoCall
    /\ locals = [pc |-> "submit", futures |-> <<>>, next |-> 1,
                 item_global |-> EmptyCounter, user_global |-> EmptyCounter]

\* run(), lines 90-91: submit the next batch, or leave the loop after the last one
RunSubmit ==
    /\ pc = "idle"
    /\ locals.pc = "submit"
    /\ LET batches == batched(args.stream, args.batch_size)
           n == Len(Futures)
       IN  IF n < Len(batches)
           THEN locals' = [locals EXCEPT !.futures =
                              Append(@, [state |-> "pending", batch |-> batches[n + 1],
                                         value |-> NoValue])]
           ELSE locals' = [locals EXCEPT !.pc = "collect"]
    /\ UNCHANGED <<procVars, args, result>>

\* a free process of the pool takes a submitted batch; the pool goes on doing so
\* while the with-block is left after an exception (shutdown(wait=True) cancels nothing)
PoolTake(k) ==
    /\ pc = "idle"
    /\ locals.pc \in {"submit", "collect", "raised"}
    /\ k \in 1..Len(Futures)
    /\ Futures[k].state = "pending"
    /\ Cardinality(Running) < args.workers
    /\ locals' = [locals EXCEPT !.futures[k].state = "running"]
    /\ UNCHANGED <<procVars, args, result>>

\* process_batch returns in the pool: the future holds its result
PoolFinish(k) ==
    /\ pc = "idle"
    /\ k \in 1..Len(Futures)
    /\ Futures[k].state = "running"
    /\ locals' = [locals EXCEPT !.futures[k].state = "done",
                                !.futures[k].value = process_batch(Futures[k].batch)]
    /\ UNCHANGED <<procVars, args, result>>

\* process_batch raises in the pool: the future holds the exception
PoolFail(k) ==
    /\ pc = "idle"
    /\ k \in 1..Len(Futures)
    /\ Futures[k].state = "running"
    /\ locals' = [locals EXCEPT !.futures[k].state = "failed"]
    /\ UNCHANGED <<procVars, args, result>>

\* a collection loop that catches the exception of a future and goes on
RunCollect_SkipFailed ==
    /\ pc = "idle"
    /\ locals.pc = "collect"
    /\ locals.next <= Len(Futures)
    /\ Futures[locals.next].state \in {"done", "failed"}
    /\ locals' = IF Futures[locals.next].state = "done"
                 THEN [locals EXCEPT
                          !.item_global = merge_counts(@, Futures[locals.next].value.item),
                          !.user_global = merge_counts(@, Futures[locals.next].value.user),
                          !.next = @ + 1]
                 ELSE [locals EXCEPT !.next = @ + 1]
    /\ UNCHANGED <<procVars, args, result>>

\* run(), lines 93-96: fut.result() blocks until the future is settled, re-raises its
\* exception, and otherwise its counts are merged; the exception leaves the loop and
\* enters the exit of the with-block, where RunRaise goes on
RunCollect ==
    /\ pc = "idle"
    /\ locals.pc = "collect"
    /\ locals.next <= Len(Futures)
    /\ Futures[locals.next].state \in {"done", "failed"}
    /\ IF Futures[locals.next].state = "done"
       THEN /\ locals' = [locals EXCEPT
                             !.item_global = merge_counts(@, Futures[locals.next].value.item),
                             !.user_global = merge_counts(@, Futures[locals.next].value.user),
                             !.next = @ + 1]
            /\ UNCHANGED result
       ELSE /\ locals' = [locals EXCEPT !.pc = "raised"]
            /\ UNCHANGED result
    /\ UNCHANGED <<procVars, args>>

\* the futures whose batch has been processed, with a result or an exception
Settled == {k \in 1..Len(Futures) : Futures[k].state \in {"done", "failed"}}

\* run(), line 88: the exit of the with-block shuts the pool down and waits until
\* every submitted batch has been processed; only then the exception of fut.result()
\* reaches the caller of run()
RunRaise ==
    /\ pc = "idle"
    /\ locals.pc = "raised"
    /\ result = NoCall
    /\ Settled = 1..Len(Futures)
    /\ result' = [op |-> "run", raised |-> locals.next]
    /\ UNCHANGED <<procVars, args, locals>>

\* run(), line 98: the with-block is left with every future collected
RunReturn ==
    /\ pc = "idle"
    /\ locals.pc = "collect"
    /\ locals.next > Len(Futures)
    /\ locals' = [locals EXCEPT !.pc = "returned"]
    /\ result' = [op |-> "run", item_counts |-> locals.item_global,
                  user_counts |-> locals.user_global]
    /\ UNCHANGED <<procVars, args>>

NextRun ==
    \/ RunSubmit
    \/ \E k \in 1..MaxStream : PoolTake(k)
    \/ \E k \in 1..MaxStream : PoolFinish(k)
    \/ \E k \in 1..MaxStream : PoolFail(k)
    \/ RunCollect
    \/ RunRaise
    \/ RunReturn

SpecRun == InitRun /\ [][NextRun]_vars

(***************************************************************************)
(* SensorDQTool.process: JSON lines validated by a process pool            *)
(***************************************************************************)
MaxRecords == 3

\* JSON values: a type tag and the value under a field of its own per type;
\* a string is a sequence of characters
Num(n) == [t |-> "num", n |-> n]

Str(s) == [t |-> "str", s |-> s]

Null == [t |-> "null"]

List == [t |-> "list", items |-> <<1>>]

True == [t |-> "bool", b |-> TRUE]

Dict(d) == [t |-> "dict", d |-> d]

OK == <<"O", "K">>

\* a record that passes every test
GoodRec ==
    [device_id |-> Str(<<"a">>), ts |-> Num(1), temperature |-> Num(22),
     humidity |-> Num(50), battery |-> Num(90), status |-> Str(OK)]

\* input lines: blank, not JSON, JSON that is no object, JSON objects
BlankLine == [kind |-> "blank", raw |-> <<" ">>]

GarbageLine == [kind |-> "garbage", raw |-> <<"n", "o">>]

ScalarLine == [kind |-> "json", raw |-> <<"4", "2">>, value |-> Num(42)]

ObjLine(rec) == [kind |-> "json", raw |-> <<"{", "}">>, value |-> Dict(rec)]

GoodLine == ObjLine(GoodRec)

TempHighLine == ObjLine([GoodRec EXCEPT !.temperature = Num(100)])

CoreLines == {BlankLine, GarbageLine, ScalarLine, GoodLine, TempHighLine}

\* objects that take the other branches of validate_single
BranchLines ==
    {ObjLine([k \in DOMAIN GoodRec \ {"ts"} |-> GoodRec[k]]),
     ObjLine([GoodRec EXCEPT !.humidity = Null]),
     ObjLine([GoodRec EXCEPT !.battery = Str(<<" ", "N", "a", "N">>)]),
     ObjLine([GoodRec EXCEPT !.temperature = Str(<<"2", "2">>)]),
     ObjLine([GoodRec EXCEPT !.temperature = List]),
     ObjLine([GoodRec EXCEPT !.temperature = Num(-41)]),
     ObjLine([GoodRec EXCEPT !.humidity = Num(101)]),
     ObjLine([GoodRec EXCEPT !.battery = Num(-1)]),
     ObjLine([GoodRec EXCEPT !.status = Str(<<"B", "A", "D">>)]),
     ObjLine([GoodRec EXCEPT !.status = Num(1)]),
     ObjLine([GoodRec EXCEPT !.status = List]),
     ObjLine([k \in DOMAIN GoodRec \cup {"_corrupt"} |->
                 IF k = "_corrupt" THEN True ELSE GoodRec[k]]),
     ObjLine([k \in DOMAIN GoodRec \cup {"_corrupt"} |->
                 IF k = "_corrupt" THEN Dict(<<>>) ELSE GoodRec[k]]),
     ObjLine([GoodRec EXCEPT !.device_id = Str(<<"\f", "n", "u", "l", "l">>)]),
     ObjLine([GoodRec EXCEPT !.status = Str(<<"W", "A", "R", "N">>)])}

DQFiles == SeqsUpTo(CoreLines, MaxRecords) \cup {<<l>> : l \in BranchLines}

\* stream_file: one record per line that is not blank; a line json.loads rejects
\* gives {"_corrupt": True, "raw": line}
RECURSIVE stream_file(_)
stream_file(lines) ==
    IF lines = <<>> THEN <<>>
    ELSE LET line == Head(lines)
         IN  IF line.kind = "blank" THEN stream_file(Tail(lines))
             ELSE IF line.kind = "garbage"
                  THEN <<Dict([_corrupt |-> True, raw |-> Str(line.raw)])>>
                           \o stream_file(Tail(lines))
                  ELSE <<line.value>> \o stream_file(Tail(lines))

\* the characters c with c.lower() == letter, for the letters of 'nan' and 'null':
\* the letter and its capital (no other character of Unicode has a, l, n or u as its
\* lower case, and str.lower() gives one character for every character but U+0130)
LowersTo(letter) ==
    CASE letter = "a" -> {"a", "A"}
      [] letter = "l" -> {"l", "L"}
      [] letter = "n" -> {"n", "N"}
      [] letter = "u" -> {"u", "U"}

\* s.lower() == word, for a word made of the letters a, l, n, u
LowerIs(s, word) ==
    /\ Len(s) = Len(word)
    /\ \A i \in 1..Len(word) : s[i] \in LowersTo(word[i])

\* dict.get(key): None for an absent key
DictGet(d, key) == IF key \in DOMAIN d THEN d[key] ELSE Null

\* v is None or (isinstance(v, str) and v.strip().lower() in {"", "nan", "null"})
_is_missing(v) ==
    \/ v.t = "null"
    \/ /\ v.t = "str"
       /\ LET s == strip(v.s)
          IN  \/ s = <<>>
              \/ LowerIs(s, <<"n", "a", "n">>)
              \/ LowerIs(s, <<"n", "u", "l", "l">>)

required == <<"device_id", "ts", "temperature", "humidity", "battery", "status">>

\* Python truth value of a JSON value
Truthy(v) ==
    CASE v.t = "null" -> FALSE
      [] v.t = "bool" -> v.b
      [] v.t = "num" -> v.n # 0
      [] v.t = "str" -> v.s # <<>>
      [] v.t = "list" -> v.items # <<>>
      [] v.t = "dict" -> DOMAIN v.d # {}
      [] OTHER -> TRUE

\* whether -40 <= v is defined, and the number v then stands for (bool is an int)
Comparable(v) == v.t \in {"num", "bool"}

NumOf(v) == IF v.t = "bool" THEN (IF v.b THEN 1 ELSE 0) ELSE v.n

Outcome(rec, ok, reason) == [rec |-> rec, ok |-> ok, reason |-> reason, raised |-> ""]

Raises(rec, exc) == [rec |-> rec, ok |-> FALSE, reason |-> <<>>, raised |-> exc]

\* validate_single: (rec, is_clean, reason); the reason is kept as its parts
\* ("missing:" followed by the field names), "" is the empty sequence
validate_single(rec) ==
    IF rec.t # "dict" THEN Raises(rec, "AttributeError")
    ELSE LET d == rec.d
             IsMissing(f) == _is_missing(DictGet(d, f))
             missing == SelectSeq(required, IsMissing)
         IN  IF Truthy(DictGet(d, "_corrupt")) THEN Outcome(rec, FALSE, <<"corrupt_json">>)
             ELSE IF missing # <<>> THEN Outcome(rec, FALSE, <<"missing:">> \o missing)
             ELSE IF \E f \in {"temperature", "humidity", "battery"} : d[f].t = "str"
                  THEN Outcome(rec, FALSE, <<"invalid_type">>)
             ELSE IF ~Comparable(d.temperature) THEN Raises(rec, "TypeError")
             ELSE IF ~(-40 <= NumOf(d.temperature) /\ NumOf(d.temperature) <= 85)
                  THEN Outcome(rec, FALSE, <<"temperature_range">>)
             ELSE IF ~Comparable(d.humidity) THEN Raises(rec, "TypeError")
             ELSE IF ~(0 <= NumOf(d.humidity) /\ NumOf(d.humidity) <= 100)
                  THEN Outcome(rec, FALSE, <<"humidity_range">>)
             ELSE IF ~Comparable(d.battery) THEN Raises(rec, "TypeError")
             ELSE IF ~(0 <= NumOf(d.battery) /\ NumOf(d.battery) <= 100)
                  THEN Outcome(rec, FALSE, <<"battery_range">>)
             ELSE IF d.status.t \in {"list", "dict"} THEN Raises(rec, "TypeError")
             ELSE IF ~(d.status.t = "str" /\ d.status.s \in {OK, WARN, <<"F", "A", "I", "L">>})
                  THEN Outcome(rec, FALSE, <<"status_invalid">>)
             ELSE Outcome(rec, TRUE, <<>>)

\* rec2 = dict(rec); rec2["_reason"] = reason
WithReason(rec, reason) ==
    Dict([k \in DOMAIN rec.d \cup {"_reason"} |->
             IF k = "_reason" THEN Str(reason) ELSE rec.d[k]])

\* process(), lines 121-127: the results of one batch go to clean and dirty
RECURSIVE Classify(_, _, _)
Classify(clean, dirty, results) ==
    IF results = <<>> THEN [clean |-> clean, dirty |-> dirty]
    ELSE LET r == Head(results)
         IN  IF r.ok
             THEN Classify(Append(clean, r.rec), dirty, Tail(results))
             ELSE Classify(clean, Append(dirty, WithReason(r.rec, r.reason)), Tail(results))

InitDQ ==
    /\ ProcessIdle
    /\ args \in [lines : DQFiles, batch_size : 1..MaxBatch, workers : 1..MaxWorkers]
    /\ result = NoCall
    /\ locals = [pc |-> "batch", done |-> 0, batch |-> <<>>, state |-> <<>>,
                 results |-> <<>>, clean |-> <<>>, dirty |-> <<>>]

\* process(), line 119: the next batch of the stream, or the end of the loop
DQNextBatch ==
    /\ pc = "idle"
    /\ locals.pc = "batch"
    /\ LET batches == chunked(stream_file(args.lines), args.batch_size)
       IN  IF locals.done < Len(batches)
           THEN LET b == batches[locals.done + 1]
                IN  locals' = [locals EXCEPT !.pc = "map", !.batch = b,
                                  !.state = [i \in 1..Len(b) |-> "todo"],
                                  !.results = [i \in 1..Len(b) |-> Outcome(b[i], FALSE, <<>>)]]
           ELSE locals' = [locals EXCEPT !.pc = "write"]
    /\ UNCHANGED <<procVars, args, result>>

\* pool.map, line 120: a free worker process takes a record of the batch
DQPoolTake(i) ==
    /\ pc = "idle"
    /\ locals.pc = "map"
    /\ i \in 1..Len(locals.batch)
    /\ locals.state[i] = "todo"
    /\ Cardinality({j \in 1..Len(locals.state) : locals.state[j] = "running"}) < args.workers
    /\ locals' = [locals EXCEPT !.state[i] = "running"]
    /\ UNCHANGED <<procVars, args, result>>

\* the worker process has run validate_single on the record
DQPoolDone(i) ==
    /\ pc = "idle"
    /\ locals.pc = "map"
    /\ i \in 1..Len(locals.batch)
    /\ locals.state[i] = "running"
    /\ locals' = [locals EXCEPT !.state[i] = "done",
                                !.results[i] = validate_single(locals.batch[i])]
    /\ UNCHANGED <<procVars, args, result>>

\* pool.map returns the results in the order of the batch, or raises the exception
\* of a worker; lines 121-127 then go through the results
DQCollect ==
    /\ pc = "idle"
    /\ locals.pc = "map"
    /\ \A i \in 1..Len(locals.state) : locals.state[i] = "done"
    /\ IF \E i \in 1..Len(locals.results) : locals.results[i].raised # ""
       THEN /\ locals' = [locals EXCEPT !.pc = "raised"]
            /\ result' = [op |-> "process", outcome |-> "raised",
                          clean |-> <<>>, dirty |-> <<>>]
       ELSE /\ LET c == Classify(locals.clean, locals.dirty, locals.results)
               IN  locals' = [locals EXCEPT !.pc = "batch", !.done = @ + 1,
                                 !.clean = c.clean, !.dirty = c.dirty]
            /\ UNCHANGED result
    /\ UNCHANGED <<procVars, args>>

\* process(), lines 130-134: write both lists and return their lengths
DQWrite ==
    /\ pc = "idle"
    /\ locals.pc = "write"
    /\ locals' = [locals EXCEPT !.pc = "returned"]
    /\ result' = [op |-> "process", outcome |-> "returned",
                  clean |-> locals.clean, dirty |-> locals.dirty]
    /\ UNCHANGED <<procVars, args>>

NextDQ ==
    \/ DQNextBatch
    \/ \E i \in 1..MaxRecords : DQPoolTake(i)
    \/ \E i \in 1..MaxRecords : DQPoolDone(i)
    \/ DQCollect
    \/ DQWrite

SpecDQ == InitDQ /\ [][NextDQ]_vars

(***************************************************************************)
(* read_in_chunks: lines of a text file read chunk_size characters a time  *)
(***************************************************************************)
MaxText == 4
MaxRead == 3

NL == "\n"

\* f.read(read_size) at position pos: the next read_size characters, fewer at the end
read(text, pos, read_size) ==
    SubSeq(text, pos + 1, IF pos + read_size < Len(text) THEN pos + read_size ELSE Len(text))

\* read_in_chunks that starts each round from the new chunk alone
RECURSIVE read_in_chunks_from_NoCarry(_, _, _, _)
read_in_chunks_from_NoCarry(text, pos, carry, read_size) ==
    LET chunk == read(text, pos, read_size)
    IN  IF chunk = <<>>
        THEN IF carry # <<>> THEN <<carry>> ELSE <<>>
        ELSE LET lines == split(chunk, NL, Len(chunk))
             IN  SubSeq(lines, 1, Len(lines) - 1)
                     \o read_in_chunks_from_NoCarry(text, pos + Len(chunk), lines[Len(lines)],
                                                    read_size)

\* the loop of read_in_chunks with pos characters read and carry left over:
\* the lines it yields from there on
RECURSIVE read_in_chunks_from(_, _, _, _)
read_in_chunks_from(text, pos, carry, read_size) ==
    LET chunk == read(text, pos, read_size)
    IN  IF chunk = <<>>
        THEN IF carry # <<>> THEN <<carry>> ELSE <<>>
        ELSE LET lines == split(carry \o chunk, NL, Len(carry \o chunk))
             IN  SubSeq(lines, 1, Len(lines) - 1)
                     \o read_in_chunks_from(text, pos + Len(chunk), lines[Len(lines)],
                                            read_size)

\* list(read_in_chunks(filepath, read_size)) for a file that holds text
read_in_chunks(text, read_size) == read_in_chunks_from(text, 0, <<>>, read_size)

Texts == SeqsUpTo({"a", "b", NL}, MaxText)

InitRead ==
    /\ ProcessIdle
    /\ args \in [text : Texts, chunk_size : 1..MaxRead]
    /\ result = NoCall
    /\ locals = NoCall

CallReadInChunks ==
    /\ pc = "idle"
    /\ result = NoCall
    /\ result' = [op |-> "read_in_chunks",
                  value |-> read_in_chunks(args.text, args.chunk_size)]
    /\ UNCHANGED <<procVars, args, locals>>

NextRead == CallReadInChunks

SpecRead == InitRead /\ [][NextRead]_vars

(***************************************************************************)
(* VersionedFile: a with-block that backs the file up and restores it      *)
(***************************************************************************)
MaxWrites == 2

\* a path that names no file, and a file with its content
Absent == [exists |-> FALSE, data |-> <<>>]

FileOf(data) == [exists |-> TRUE, data |-> data]

\* what self.filepath and self.backup may hold before the with statement
FileStates == {Absent, FileOf(<<>>), FileOf(<<"o">>), FileOf(<<"o", "o">>)}

BackupStates == {Absent, FileOf(<<"s">>)}

\* the strings the body passes to f.write
WriteData == {<<"x">>, <<"y">>}

InitVF ==
    /\ ProcessIdle
    /\ args \in [file : FileStates, backup : BackupStates]
    /\ result = NoCall
    /\ locals = [pc |-> "enter", filepath |-> args.file, backup |-> args.backup,
                 buffer |-> <<>>, written |-> <<>>, writes |-> 0, exc |-> FALSE]

\* an __enter__ that opens the file for writing before it copies it to the backup
VFEnter_BackupAfterOpen ==
    /\ pc = "idle"
    /\ locals.pc = "enter"
    /\ locals' = [locals EXCEPT !.pc = "body",
                                !.backup = FileOf(<<>>),
                                !.filepath = FileOf(<<>>)]
    /\ UNCHANGED <<procVars, args, result>>

\* __enter__, lines 19-32: copy the file (an empty new one if there is none) to the
\* backup, then open it for writing, which truncates it
VFEnter ==
    /\ pc = "idle"
    /\ locals.pc = "enter"
    /\ locals' = [locals EXCEPT !.pc = "body",
                                !.backup = IF locals.filepath.exists
                                           THEN FileOf(locals.filepath.data)
                                           ELSE FileOf(<<>>),
                                !.filepath = FileOf(<<>>)]
    /\ UNCHANGED <<procVars, args, result>>

\* the body calls f.write(d): the text goes to the buffer of the file object
VFWrite(d) ==
    /\ pc = "idle"
    /\ locals.pc = "body"
    /\ locals.writes < MaxWrites
    /\ locals' = [locals EXCEPT !.buffer = @ \o d, !.written = @ \o d, !.writes = @ + 1]
    /\ UNCHANGED <<procVars, args, result>>

\* the file object writes its buffer out
VFFlush ==
    /\ pc = "idle"
    /\ locals.pc = "body"
    /\ locals.buffer # <<>>
    /\ locals' = [locals EXCEPT !.filepath = FileOf(@.data \o locals.buffer),
                                !.buffer = <<>>]
    /\ UNCHANGED <<procVars, args, result>>

\* the body raises
VFBodyRaise ==
    /\ pc = "idle"
    /\ locals.pc = "body"
    /\ locals' = [locals EXCEPT !.pc = "exit", !.exc = TRUE]
    /\ UNCHANGED <<procVars, args, result>>

\* the body completes
VFBodyEnd ==
    /\ pc = "idle"
    /\ locals.pc = "body"
    /\ locals' = [locals EXCEPT !.pc = "exit", !.exc = FALSE]
    /\ UNCHANGED <<procVars, args, result>>

\* __exit__, lines 34-45: close the file; after an exception copy the backup over it;
\* return False, so that the exception propagates
VFExit ==
    /\ pc = "idle"
    /\ locals.pc = "exit"
    /\ locals' = [locals EXCEPT !.pc = "after",
                                !.buffer = <<>>,
                                !.filepath = IF locals.exc
                                             THEN locals.backup
                                             ELSE FileOf(@.data \o locals.buffer)]
    /\ result' = [op |-> "with", raised |-> locals.exc]
    /\ UNCHANGED <<procVars, args>>

NextVF ==
    \/ VFEnter
    \/ \E d \in WriteData : VFWrite(d)
    \/ VFFlush
    \/ VFBodyRaise
    \/ VFBodyEnd
    \/ VFExit

SpecVF == InitVF /\ [][NextVF]_vars

(***************************************************************************)
(* Properties                                                              *)
(***************************************************************************)
\* two aggregates are equal as Python values
AggEq(x, y) ==
    /\ AsMap(x.levels) = AsMap(y.levels)
    /\ AsMap(x.rps) = AsMap(y.rps)
    /\ AsMap(x.errors) = AsMap(y.errors)
    /\ x.total_lines = y.total_lines
    /\ x.parsed_lines = y.parsed_lines

\* the per-worker aggregates in slice order, for the slices that are not empty
RECURSIVE CombinedInOrder(_)
CombinedInOrder(sl) ==
    IF sl = <<>> THEN <<>>
    ELSE LET rest == CombinedInOrder(SubSeq(sl, 1, Len(sl) - 1))
             last == sl[Len(sl)]
         IN  IF last = <<>> THEN rest
             ELSE Append(rest, reduce_merge([i \in 1..Len(last) |-> aggregate_chunk(last[i])], base))

\* the final aggregate of a run in which the workers append in slice order
ProcessInOrder(lines, cs, th) ==
    reduce_merge(CombinedInOrder(MakeSlices(iter_chunks(lines, cs), th)), base)

Permute(s, p) == [i \in 1..Len(s) |-> s[p[i]]]

RECURSIVE SumField(_, _)
SumField(aggs, f) == IF aggs = <<>> THEN 0 ELSE aggs[1][f] + SumField(Tail(aggs), f)

RECURSIVE Flatten(_)
Flatten(ss) == IF ss = <<>> THEN <<>> ELSE Head(ss) \o Flatten(Tail(ss))

\* every per-chunk PartialAggregate the workers have produced
AllChunkPartials == Flatten([w \in 1..Len(local_partials) |-> local_partials[w]])

Crashed == \E w \in DOMAIN wpc : wpc[w] = "crashed"

\* C1: if a worker thread of process() terminates abnormally, process() returns
\* no summary (the failure is fatal for the run).
C1_WorkerFailureIsFatal == Crashed => pc # "done"

\* C2: the total_lines process() returns equals the number of lines of the file.
C2_Conservation == pc = "done" => summary.total_lines = Len(file)

C2_Witness ==
    /\ pc = "done"
    /\ Len(file) >= 3
    /\ Len(slices) >= 2
    /\ \E w \in DOMAIN slices : Len(slices[w]) >= 2
    /\ summary.total_lines = Len(file)

\* C3: the contents of the final aggregate do not depend on the order in which the
\* workers appended to partials: folding any permutation of partials with merge
\* gives the same contents, which are those of the run that appends in slice order.
C3_ScheduleInvariance ==
    (pc = "done" /\ chunks # <<>>) =>
        /\ \A p \in Permutations(1..Len(partials)) :
               AggEq(reduce_merge(Permute(partials, p), base), final)
        /\ AggEq(final, ProcessInOrder(file, chunk_size, threads))

\* a run whose workers appended out of slice order, which shows in the insertion
\* order of the final counters
C3_Witness ==
    /\ pc = "done"
    /\ Len(partials) >= 2
    /\ partials # CombinedInOrder(slices)
    /\ final # ProcessInOrder(file, chunk_size, threads)
    /\ AggEq(final, ProcessInOrder(file, chunk_size, threads))

\* C4: the contents of the final aggregate are the same for every chunk_size and
\* every worker count.
C4_ChunkCountInvariance ==
    (pc = "done" /\ chunks # <<>>) =>
        \A cs \in 1..MaxChunkSize : \A th \in 1..MaxThreads :
            AggEq(final, ProcessInOrder(file, cs, th))

C4_Witness ==
    /\ pc = "done"
    /\ Len(chunks) >= 2
    /\ Len(slices) >= 2
    /\ final.parsed_lines >= 2
    /\ AggEq(final, ProcessInOrder(file, 1, 1))
    /\ AggEq(final, ProcessInOrder(file, MaxChunkSize, MaxThreads))

Scenario == pc = "done" /\ file = ScenarioFile /\ chunk_size = 2 /\ threads = 2

\* C5 as stated: the three-line scenario with chunk_size=2, threads=2 returns
\* total_lines=3, parsed_lines=3, level_counts={INFO:1, ERROR:2},
\* most_frequent_error={'disk full', 2}, rps={'2024-01-01 10:00:00', 2, 2}.
C5_ScenarioAsStated ==
    Scenario =>
        /\ summary.total_lines = 3
        /\ summary.parsed_lines = 3
        /\ AsMap(summary.level_counts) = {<<INFO, 1>>, <<ERROR, 2>>}
        /\ summary.most_frequent_error = [message |-> DiskFull, count |-> 2]
        /\ summary.rps = [peak_second |-> SecondA, peak_value |-> 2, distinct_seconds |-> 2]

\* C5 amended: in that scenario every line is rejected, because the level tokens
\* 'INFO:' and 'ERROR:' are not recognized levels; process() returns total_lines=3,
\* parsed_lines=0, empty level_counts, most_frequent_error={'', 0} and an all-zero rps.
C5_ScenarioAllRejected ==
    Scenario =>
        /\ summary.total_lines = 3
        /\ summary.parsed_lines = 0
        /\ AsMap(summary.level_counts) = {}
        /\ summary.most_frequent_error = [message |-> EmptyStr, count |-> 0]
        /\ summary.rps = [peak_second |-> EmptyStr, peak_value |-> 0, distinct_seconds |-> 0]

C5_Witness == Scenario /\ Len(chunks) = 2 /\ Len(partials) = 2

\* C6: for a file without lines process() returns the all-zero summary and starts
\* no worker thread.
C6_EmptyInput ==
    file = <<>> =>
        /\ started = 0
        /\ wpc = <<>>
        /\ pc = "done" =>
              /\ summary.total_lines = 0
              /\ summary.parsed_lines = 0
              /\ AsMap(summary.level_counts) = {}
              /\ summary.most_frequent_error = [message |-> EmptyStr, count |-> 0]
              /\ summary.rps = [peak_second |-> EmptyStr, peak_value |-> 0, distinct_seconds |-> 0]

C6_Witness == file = <<>> /\ pc = "done" /\ started = 0 /\ summary.total_lines = 0

\* the lines of a batch that have at least 4 whitespace-separated tokens
WellTokenized(ch) == {j \in 1..Len(ch) : TokenCount(ch[j]) >= 4}

\* C7: a line with fewer than 4 whitespace-separated tokens is rejected: it counts
\* in total_lines only, so in every per-chunk aggregate parsed_lines and the sums of
\* the levels and rps mappings count lines with at least 4 tokens only.
C7_ShortLinesRejected ==
    \A w \in DOMAIN local_partials : \A i \in 1..Len(local_partials[w]) :
        LET agg == local_partials[w][i]
            ch == slices[w][i]
        IN  /\ agg.total_lines = Len(ch)
            /\ agg.parsed_lines <= Cardinality(WellTokenized(ch))
            /\ SumValues(agg.levels) <= Cardinality(WellTokenized(ch))
            /\ SumValues(agg.rps) <= Cardinality(WellTokenized(ch))
            /\ \A j \in 1..Len(ch) : TokenCount(ch[j]) < 4 => parse_line(ch[j]) = None

\* C8: merge is associative on aggregates taken as values.
C8_MergeAssociative ==
    (result.op = "merge3") => AggEq(result.left, result.right)

\* a, b and c share a key, and each has one the others lack
C8_Witness ==
    /\ result.op = "merge3"
    /\ Keys(args.a.rps) \cap Keys(args.c.rps) # {}
    /\ Keys(args.b.rps) \ Keys(args.a.rps) # {}
    /\ Keys(args.c.errors) \ Keys(args.b.errors) # {}
    /\ result.left.total_lines >= 3

KeywiseSum(x, y, xy) ==
    /\ Keys(xy) = Keys(x) \cup Keys(y)
    /\ \A k \in Keys(x) \cup Keys(y) : Get(xy, k) = Get(x, k) + Get(y, k)

\* C9: merge(a, b) adds the counters key by key and the totals, so merge(a, b) and
\* merge(b, a) are equal as values; the same for merge_counts on count mappings.
C9_MergeKeywiseCommutative ==
    /\ (result.op = "merge") =>
          /\ \A f \in CategoryFields : KeywiseSum(args.a[f], args.b[f], result.ab[f])
          /\ result.ab.total_lines = args.a.total_lines + args.b.total_lines
          /\ result.ab.parsed_lines = args.a.parsed_lines + args.b.parsed_lines
          /\ AggEq(result.ab, result.ba)
    /\ (result.op = "merge_counts") =>
          /\ KeywiseSum(result.x, result.y, result.xy)
          /\ AsMap(result.xy) = AsMap(result.yx)

\* both orders give the same mapping although the keys were inserted in another order
C9_Witness ==
    /\ result.op = "merge_counts"
    /\ Keys(result.x) \cap Keys(result.y) # {}
    /\ result.xy # result.yx
    /\ AsMap(result.xy) = AsMap(result.yx)

\* C10: the totals of the final aggregate are the sums over all per-chunk aggregates;
\* one per-chunk aggregate exists per chunk.
C10_LossFreeReduction ==
    (pc = "done" /\ chunks # <<>>) =>
        /\ Len(AllChunkPartials) = Len(chunks)
        /\ final.total_lines = SumField(AllChunkPartials, "total_lines")
        /\ final.parsed_lines = SumField(AllChunkPartials, "parsed_lines")

C10_Witness ==
    /\ pc = "done"
    /\ Len(partials) >= 2
    /\ \E w \in DOMAIN local_partials : Len(local_partials[w]) >= 2
    /\ final.parsed_lines >= 1
    /\ final.parsed_lines < final.total_lines

\* the aggregates reduce(merge, seq, base) passes through, one per merge step
Prefixes(seq) == {reduce_merge(SubSeq(seq, 1, k), base) : k \in 0..Len(seq)}

\* every aggregate that exists in the current state of a run
AggregatesOfRun ==
    UNION {{local_partials[w][i] : i \in 1..Len(local_partials[w])} : w \in DOMAIN local_partials}
    \cup UNION {Prefixes(local_partials[w]) : w \in DOMAIN local_partials}
    \cup {combined[w] : w \in DOMAIN combined}
    \cup {partials[i] : i \in 1..Len(partials)}
    \cup Prefixes(partials)
    \cup {final}

\* C11: in every aggregate of a run (per-chunk, per-worker after each local merge,
\* final after each merge step) parsed_lines <= total_lines.
C11_ParsedAtMostTotal ==
    \A a \in AggregatesOfRun : 0 <= a.parsed_lines /\ a.parsed_lines <= a.total_lines

C11_Witness ==
    /\ pc = "done"
    /\ Len(partials) >= 2
    /\ \E w \in DOMAIN local_partials : Len(local_partials[w]) >= 2
    /\ \E a \in Prefixes(partials) : 0 < a.parsed_lines /\ a.parsed_lines < a.total_lines
    /\ final.parsed_lines < final.total_lines

BatchSizesOk(bs, items, n) ==
    /\ \A i \in 1..(Len(bs) - 1) : Len(bs[i]) = n
    /\ bs # <<>> => (1 <= Len(bs[Len(bs)]) /\ Len(bs[Len(bs)]) <= n)
    /\ \A i \in 1..Len(bs) : bs[i] # <<>>
    /\ items = <<>> => bs = <<>>

\* C12: every batch a chunker yields holds exactly chunk_size items, except the last,
\* which holds between 1 and chunk_size; no batch is empty and an empty input yields
\* no batch (iter_chunks, batched and chunked).
C12_BatchSizes ==
    result.op \in {"iter_chunks", "batched", "chunked"} =>
        BatchSizesOk(result.value, args.items, args.n)

C12_Witness ==
    /\ result.op = "iter_chunks"
    /\ Len(result.value) >= 2
    /\ Len(result.value[1]) = args.n
    /\ Len(result.value[Len(result.value)]) < args.n

IsRecord(v) == Len(v) = 3 /\ v[1] \in {INFO, WARNING, ERROR}

\* C15: parse_line returns, for every line, either a (level, ts_second, msg) record
\* or None and never raises; so aggregate_chunk does not fail on malformed input.
C15_ParserTotal ==
    /\ result.op = "parse_line" =>
          /\ result.value # IndexError
          /\ result.value = None \/ IsRecord(result.value)
    /\ result.op = "aggregate_chunk" => "raised" \notin DOMAIN result.value

\* an accepted line without ':' and without ','
C15_Witness ==
    /\ result.op = "parse_line"
    /\ IsRecord(result.value)
    /\ Find(result.line, ":") = 0
    /\ Find(result.line, ",") = 0

Accepted(batch) == {j \in 1..Len(batch) : parse_line(batch[j]) # None}

\* C16: aggregate_chunk returns total_lines = batch size and parsed_lines = number of
\* accepted lines; a rejected line adds to no category counter, and a batch of
\* rejected lines only gives empty levels, rps and errors mappings, without an error.
C16_RejectedAbsorbed ==
    result.op = "aggregate_chunk" =>
        LET v == result.value
            b == args.batch
        IN  /\ "raised" \notin DOMAIN v
            /\ v.total_lines = Len(b)
            /\ v.parsed_lines = Cardinality(Accepted(b))
            /\ SumValues(v.levels) = Cardinality(Accepted(b))
            /\ SumValues(v.rps) = Cardinality(Accepted(b))
            /\ SumValues(v.errors) =
                   Cardinality({j \in Accepted(b) : parse_line(b[j])[1] = ERROR})
            /\ Accepted(b) = {} => (v.levels = <<>> /\ v.rps = <<>> /\ v.errors = <<>>)

C16_Witness ==
    /\ result.op = "aggregate_chunk"
    /\ Len(args.batch) >= 2
    /\ Accepted(args.batch) = {}
    /\ result.value.total_lines = Len(args.batch)
    /\ result.value.levels = <<>>

\* ceil(a / b)
CeilDiv(a, b) == CHOOSE q \in 0..a : q * b >= a /\ (q - 1) * b < a

Min(a, b) == IF a < b THEN a ELSE b

\* C13 as stated: the chunks are split into n slices of size ceil(total_chunks / n),
\* only the last possibly shorter, which cover the chunk sequence exactly once in order.
C13_SlicesAsStated ==
    slices # <<>> =>
        LET n == Len(slices)
            size == CeilDiv(Len(chunks), n)
        IN  /\ n = Min(threads, Len(chunks))
            /\ \A i \in 1..(n - 1) : Len(slices[i]) = size
            /\ Len(slices[n]) <= size
            /\ Flatten(slices) = chunks

\* C13 amended: the n = min(threads, total_chunks) slices are contiguous, hold at most
\* ceil(total_chunks / n) chunks each and cover the chunk sequence exactly once in
\* order; the slices before the first shorter one are full and those after it are empty.
C13_SlicePartition ==
    slices # <<>> =>
        LET n == Len(slices)
            size == CeilDiv(Len(chunks), n)
        IN  /\ n = Min(threads, Len(chunks))
            /\ \A i \in 1..n : Len(slices[i]) <= size
            /\ \A i \in 1..n : \A j \in (i + 1)..n : Len(slices[i]) < size => slices[j] = <<>>
            /\ Len(slices[1]) = size
            /\ Flatten(slices) = chunks

\* slices of 2, 2, 1 and 0 chunks
C13_Witness ==
    /\ slices # <<>>
    /\ \E i \in 1..(Len(slices) - 1) :
           /\ 0 < Len(slices[i])
           /\ Len(slices[i]) < CeilDiv(Len(chunks), Len(slices))
    /\ slices[Len(slices)] = <<>>
    /\ Flatten(slices) = chunks

Joined == pc \in {"reduce", "done", "saved"}

\* C14 as stated: after all threads are joined, partials has as many entries as worker
\* threads were started.
C14_OnePartialPerWorker == Joined => Len(partials) = started

\* C14 amended: after all threads are joined, partials holds exactly one combined
\* aggregate for every worker whose slice is not empty and none for the others.
C14_OnePartialPerNonEmptySlice ==
    Joined =>
        /\ started = Len(slices)
        /\ Len(partials) = Cardinality({w \in DOMAIN slices : slices[w] # <<>>})
        /\ \E p \in Permutations(1..Len(partials)) :
               Permute(partials, p) = CombinedInOrder(slices)

C14_Witness ==
    /\ pc = "done"
    /\ \E w \in DOMAIN slices : slices[w] = <<>>
    /\ Len(partials) >= 2
    /\ Len(partials) < started

\* C17: when the input path does not exist, process() raises before any worker thread
\* is started, returns no summary, and save_json never writes the output file.
C17_InputNotFound ==
    ~input_exists =>
        /\ pc \in {"process", "raised"}
        /\ started = 0
        /\ wpc = <<>>
        /\ summary = None
        /\ ~output.written

C17_Witness == ~input_exists /\ pc = "raised" /\ ~output.written

\* every worker thread has ended, normally or by an exception
AllEnded == \A w \in DOMAIN wpc : wpc[w] \in {"done", "crashed"}

\* C18 as stated: between the start of the workers and the end of the run, shared
\* state (the partials list, the final aggregate) is written only in the final
\* reduction step of the coordinating thread.
C18_SharedWrittenOnlyInFinalReduce ==
    [][(partials' # partials \/ final' # final) => pc = "reduce"]_vars

\* C18 amended: a worker writes shared state exactly once, by the locked append of its
\* combined aggregate to partials; all it writes besides is its own local_partials and
\* combined; final is written only by the coordinating thread, after all workers ended.
C18_SharedWrites ==
    [][/\ partials' # partials =>
              /\ pc \in {"start", "join"}
              /\ final' = final
              /\ \E w \in DOMAIN wpc :
                     /\ wpc[w] = "append"
                     /\ wpc'[w] = "done"
                     /\ partials' = Append(partials, combined[w])
       /\ final' # final => (pc = "reduce" /\ AllEnded /\ wpc' = wpc)
       /\ \A w \in DOMAIN wpc :
              (local_partials'[w] # local_partials[w] \/ combined'[w] # combined[w]) =>
                  /\ wpc[w] \in {"map", "reduce"}
                  /\ wpc'[w] # wpc[w]
                  /\ \A v \in DOMAIN wpc \ {w} :
                         /\ local_partials'[v] = local_partials[v]
                         /\ combined'[v] = combined[v]
                         /\ wpc'[v] = wpc[v]]_vars

\* one worker has appended to partials while another one is still running
C18_Witness ==
    /\ pc \in {"start", "join"}
    /\ Len(partials) >= 1
    /\ \E w \in DOMAIN wpc : wpc[w] = "done" /\ slices[w] # <<>>
    /\ \E v \in DOMAIN wpc : wpc[v] \in {"map", "reduce", "append"}

Returned == pc \in {"reduce", "done", "saved"}

Hung == \E w \in DOMAIN wpc : wpc[w] = "hung"

\* C19: process() gets past the joins only after every started worker thread has
\* ended; once a worker hangs, process() never returns; and when all workers have
\* ended, process() goes on to return a summary.
C19_NoTimeout ==
    /\ [](Returned => (AllEnded /\ started = Len(slices)))
    /\ [](Hung => []~Returned)
    /\ (pc = "join" /\ AllEnded) ~> (pc = "done")

\* the coordinating thread is blocked in join() on a worker that hangs
C19_Witness ==
    /\ pc = "join"
    /\ Len(slices) >= 2
    /\ joined < Len(slices)
    /\ wpc[joined + 1] = "hung"
    /\ \E w \in DOMAIN wpc : wpc[w] = "done"

KeySeq(c) == [i \in 1..Len(c) |-> c[i][1]]

\* the items of a sequence in the order of their first occurrence
RECURSIVE FirstSeen(_)
FirstSeen(s) ==
    IF s = <<>> THEN <<>>
    ELSE LET init == FirstSeen(SubSeq(s, 1, Len(s) - 1))
             x == s[Len(s)]
         IN  IF \E i \in 1..Len(init) : init[i] = x THEN init ELSE Append(init, x)

\* C20: the final reduction starts only after all worker threads have ended and been
\* joined, final is not written before, and the per-worker aggregates are merged in
\* the order in which they were appended to partials.
C20_JoinBarrier ==
    /\ Returned => (AllEnded /\ joined = Len(slices) /\ started = Len(slices))
    /\ final # base => pc \in {"done", "saved"}
    /\ (pc \in {"done", "saved"} /\ chunks # <<>>) =>
          /\ \A f \in CategoryFields :
                 KeySeq(final[f]) =
                     FirstSeen(Flatten([i \in 1..Len(partials) |-> KeySeq(partials[i][f])]))
          /\ final.total_lines = SumField(partials, "total_lines")

\* the workers appended out of slice order, and final follows the order of partials
C20_Witness ==
    /\ pc = "done"
    /\ Len(partials) >= 2
    /\ partials # CombinedInOrder(slices)
    /\ Len(final.rps) >= 2
    /\ final.rps[1][1] = partials[1].rps[1][1]
    /\ final.rps[1][1] # ProcessInOrder(file, chunk_size, threads).rps[1][1]

\* the token starts with the four characters WARN
WarnPrefixed(tok) == Len(tok) >= 4 /\ SubSeq(tok, 1, 4) = WARN

\* C21: for a line of at least 4 tokens, parse_line accepts the line exactly when the
\* level token is INFO, ERROR or begins with WARN; the record's level is WARNING for a
\* token beginning with WARN and the token itself otherwise; any other token rejects.
C21_LevelRecognition ==
    result.op = "parse_line" =>
        LET parts == split(result.line, " ", 3)
        IN  Len(parts) = 4 =>
                LET tok == parts[3]
                IN  /\ (result.value # None) <=> (tok \in {INFO, ERROR} \/ WarnPrefixed(tok))
                    /\ result.value # None =>
                           result.value[1] = IF WarnPrefixed(tok) THEN WARNING ELSE tok

\* a level token that begins with WARN and is neither WARN nor WARNING was accepted
C21_Witness ==
    /\ result.op = "parse_line"
    /\ result.line \in LevelLines
    /\ split(result.line, " ", 3)[3] = WARNX
    /\ result.value # None
    /\ result.value[1] = WARNING

\* C22: in every aggregate of a run (per-chunk, per-worker, final, and after each
\* merge step) the error messages counted are as many as the ERROR records, and the
\* level counts and the per-second counts each add up to parsed_lines.
C22_CategoryConsistency ==
    \A a \in AggregatesOfRun :
        /\ SumValues(a.errors) = Get(a.levels, ERROR)
        /\ SumValues(a.levels) = a.parsed_lines
        /\ SumValues(a.rps) = a.parsed_lines

\* a final aggregate merged from several workers, with ERROR, INFO and rejected lines
C22_Witness ==
    /\ pc = "done"
    /\ Len(partials) >= 2
    /\ Get(final.levels, ERROR) >= 1
    /\ Get(final.levels, INFO) >= 1
    /\ final.parsed_lines < final.total_lines
    /\ SumValues(final.errors) = Get(final.levels, ERROR)

\* the step is a step of worker w and of no other worker
StepOf(w) == wpc'[w] # wpc[w] /\ \A v \in DOMAIN wpc \ {w} : wpc'[v] = wpc[v]

\* C23: the per-chunk partials of a worker are written only by that worker (when it
\* maps its slice), its combined aggregate only by that worker (when it reduces); a
\* worker that has ended writes neither again, and an aggregate appended to partials
\* is not written any more.
C23_ExclusiveOwnership ==
    [][/\ \A w \in DOMAIN wpc :
              /\ local_partials'[w] # local_partials[w] => (wpc[w] = "map" /\ StepOf(w))
              /\ combined'[w] # combined[w] => (wpc[w] = "reduce" /\ StepOf(w))
              /\ wpc[w] \in {"append", "done", "crashed"} =>
                     (combined'[w] = combined[w] /\ local_partials'[w] = local_partials[w])
       /\ \A i \in 1..Len(partials) : Len(partials') >= i /\ partials'[i] = partials[i]]_vars

\* one worker has handed its combined aggregate over while another worker, which has
\* built its own per-chunk partials, is still running
C23_Witness ==
    \E w, v \in DOMAIN wpc :
        /\ w # v
        /\ wpc[w] = "done"
        /\ \E i \in 1..Len(partials) : partials[i] = combined[w]
        /\ wpc[v] \in {"reduce", "append"}
        /\ local_partials[v] # <<>>
        /\ combined[w] # base

\* the 1-based indices of the futures whose batch worker failed
FailedFutures == {k \in 1..Len(Futures) : Futures[k].state = "failed"}

\* C24: run() returns counts only when every submitted batch was counted; the
\* collection passes a future only when it is done, and leaves a failed one only by
\* raising; the failure that reaches the caller, once the pool has processed every
\* submitted batch, is that of a failed batch; a failed batch is never run again.
C24_BatchFailureIsFatal ==
    /\ [](locals.pc = "returned" =>
             (FailedFutures = {} /\ locals.next = Len(Futures) + 1))
    /\ [](locals.pc = "raised" =>
             (locals.next \in FailedFutures /\ "item_counts" \notin DOMAIN result))
    /\ []("raised" \in DOMAIN result =>
             (locals.pc = "raised" /\ result.raised \in FailedFutures))
    /\ [][/\ locals'.next # locals.next => Futures[locals.next].state = "done"
          /\ (locals.pc = "collect" /\ locals.next \in FailedFutures
                  /\ locals'.pc # "collect") => locals'.pc = "raised"
          /\ \A k \in FailedFutures : locals'.futures[k] = Futures[k]]_vars

\* run() has raised the failure of a batch after having merged an earlier batch
C24_Witness ==
    /\ locals.pc = "raised"
    /\ "raised" \in DOMAIN result
    /\ locals.next >= 2
    /\ locals.next \in FailedFutures
    /\ locals.item_global # EmptyCounter

\* the number of interactions of the stream whose field i is the key
Occurrences(stream, i, key) == Cardinality({j \in 1..Len(stream) : stream[j][i] = key})

CountsOf(stream, i, counts) ==
    /\ \A key \in {KeyOrder[r] : r \in 1..Len(KeyOrder)} :
           Get(counts, key) = Occurrences(stream, i, key)
    /\ \A j \in 1..Len(counts) : counts[j][2] >= 1
    /\ \A j, l \in 1..Len(counts) : counts[j][1] = counts[l][1] => j = l

\* C25: whatever the batch size, the worker count and the order in which the batch
\* workers finish, the mappings run() returns count every interaction once under its
\* item and once under its user, as process_batch does on the whole stream.
C25_BatchInvariance ==
    locals.pc = "returned" =>
        /\ CountsOf(args.stream, 2, result.item_counts)
        /\ CountsOf(args.stream, 1, result.user_counts)
        /\ AsMap(result.item_counts) = AsMap(process_batch(args.stream).item)
        /\ AsMap(result.user_counts) = AsMap(process_batch(args.stream).user)

\* a returned run of two batches of three interactions, batch size 2,
\* with a key that occurs in more than one batch
C25_Witness ==
    /\ locals.pc = "returned"
    /\ Len(Futures) >= 2
    /\ \E key \in {"u1", "i1"} :
           /\ Get(Futures[1].value.user \o Futures[1].value.item, key) >= 1
           /\ Get(Futures[2].value.user \o Futures[2].value.item, key) >= 1
    /\ Len(args.stream) = 3
    /\ args.batch_size = 2

NonBlank(lines) == {j \in 1..Len(lines) : lines[j].kind # "blank"}

\* x is a subsequence of y, in order
RECURSIVE IsSubSeq(_, _)
IsSubSeq(x, y) ==
    IF x = <<>> THEN TRUE
    ELSE IF y = <<>> THEN FALSE
    ELSE IF Head(x) = Head(y) THEN IsSubSeq(Tail(x), Tail(y))
    ELSE IsSubSeq(x, Tail(y))

\* C26: process() never ends by an exception; when it has returned, clean and dirty
\* together hold one record per non-blank line, clean holds unmodified records in
\* input order, and every dirty record carries a non-empty _reason, corrupt_json for a
\* line that is not valid JSON.
C26_EveryRecordClassified ==
    /\ locals.pc # "raised"
    /\ locals.pc = "returned" =>
          /\ Len(result.clean) + Len(result.dirty) = Cardinality(NonBlank(args.lines))
          /\ IsSubSeq(result.clean, stream_file(args.lines))
          /\ \A j \in 1..Len(result.dirty) :
                 /\ result.dirty[j].d["_reason"].s # <<>>
                 /\ "_corrupt" \in DOMAIN result.dirty[j].d =>
                        result.dirty[j].d["_reason"].s = <<"corrupt_json">>

\* "\n".join(lines)
RECURSIVE JoinLines(_)
JoinLines(lines) ==
    IF lines = <<>> THEN <<>>
    ELSE IF Len(lines) = 1 THEN lines[1]
    ELSE lines[1] \o <<NL>> \o JoinLines(Tail(lines))

Newlines(text) == Cardinality({i \in 1..Len(text) : text[i] = NL})

\* C27: the lines read_in_chunks yields are those of the text split at the newlines,
\* without a final empty segment: no line holds a newline, joined by newlines they
\* give the text back (up to its final newline), there is one line per newline and
\* one more for an unterminated rest; and every chunk_size yields the same lines.
C27_ReadSizeInvariance ==
    result.op = "read_in_chunks" =>
        LET text == args.text
            lines == result.value
            open == text # <<>> /\ text[Len(text)] # NL
        IN  /\ \A j \in 1..Len(lines) : Find(lines[j], NL) = 0
            /\ Len(lines) = Newlines(text) + (IF open THEN 1 ELSE 0)
            /\ text = IF open \/ text = <<>> THEN JoinLines(lines)
                      ELSE JoinLines(lines) \o <<NL>>
            /\ \A n \in 1..(MaxText + 1) : read_in_chunks(text, n) = lines

\* a two-character line read one character a time, followed by another line
C27_Witness ==
    /\ result.op = "read_in_chunks"
    /\ args.chunk_size = 1
    /\ Len(result.value) = 2
    /\ Len(result.value[1]) = 2
    /\ result.value[2] = <<"b">>

\* the summary of the run in which the workers append in slice order
SummaryInOrder == Summarize(ProcessInOrder(file, chunk_size, threads))

\* C28: the summary process() returns is a function of the file, chunk_size and
\* threads: whatever the order in which the workers complete, every field has the
\* value it has in the run whose workers append in slice order.
C28_SummaryDeterministic ==
    (pc = "done" /\ chunks # <<>>) =>
        /\ summary.total_lines = SummaryInOrder.total_lines
        /\ summary.parsed_lines = SummaryInOrder.parsed_lines
        /\ AsMap(summary.level_counts) = AsMap(SummaryInOrder.level_counts)
        /\ summary.most_frequent_error = SummaryInOrder.most_frequent_error
        /\ summary.rps = SummaryInOrder.rps
RECURSIVE SumLen(_)
SumLen(ss) == IF ss = <<>> THEN 0 ELSE Len(Head(ss)) + SumLen(Tail(ss))

\* C29: the chunks iter_chunks (and batched) yields, concatenated in order, are the
\* input sequence: item j of the input is item ((j-1) mod n) + 1 of chunk
\* ((j-1) div n) + 1, and the chunks hold nothing else.
C29_ChunkingPreservesSequence ==
    result.op \in {"iter_chunks", "batched"} =>
        LET items == args.items
            n == args.n
            cs == result.value
        IN  /\ Flatten(cs) = items
            /\ \A j \in 1..Len(items) :
                   /\ ((j - 1) \div n) + 1 <= Len(cs)
                   /\ ((j - 1) % n) + 1 <= Len(cs[((j - 1) \div n) + 1])
                   /\ cs[((j - 1) \div n) + 1][((j - 1) % n) + 1] = items[j]
            /\ SumLen(cs) = Len(items)

\* batched has yielded a full batch and a shorter one, of different items
C29_Witness ==
    /\ result.op = "batched"
    /\ Len(result.value) = 2
    /\ Len(result.value[1]) = args.n
    /\ Len(result.value[2]) < args.n
    /\ \E i, j \in 1..Len(args.items) : args.items[i] # args.items[j]
    /\ Flatten(result.value) = args.items

\* the content of the file when __enter__ is called, empty if there is no file
ContentAtEnter == IF args.file.exists THEN args.file.data ELSE <<>>

\* C30: after a with-block whose body raised, the file and the .bak file both hold
\* the content the file had at __enter__ and the exception reaches the caller; after
\* a body that completed, the file holds what the body wrote.
C30_Rollback ==
    locals.pc = "after" =>
        /\ result.raised = locals.exc
        /\ locals.backup = FileOf(ContentAtEnter)
        /\ locals.exc => locals.filepath = FileOf(ContentAtEnter)
        /\ ~locals.exc => locals.filepath = FileOf(locals.written)

\* the body wrote twice and raised, over a file that had content; the file has it again
C30_Witness ==
    /\ locals.pc = "after"
    /\ result.raised
    /\ locals.writes = 2
    /\ args.file.data # <<>>
    /\ locals.filepath.data = args.file.data

====
